---------------------------- MODULE Spec2Model ----------------------------
(***************************************************************************)
(* A model of modkey (khalifmv/modkey): the key-combination parser and     *)
(* matcher and the conflict detector of src/src/utils.ts, and the          *)
(* ShortcutManager of src/src/manager.ts.                                  *)
(*                                                                         *)
(* JavaScript strings are TLA+ strings; the string functions of the code   *)
(* (toLowerCase, trim, split, replace with a regular expression, includes) *)
(* are computed character by character.                                    *)
(***************************************************************************)
EXTENDS Integers, Sequences, FiniteSets, TLC

VARIABLES
    navigator,       \* the host's navigator global: [defined, platform]
    hasWindow,       \* whether the host has a window global
    argKeys,         \* utils: the `keys` argument of the call under test
    argEvent,        \* utils: the `event` argument of the call under test
    argDefs,         \* utils: the `shortcuts` argument of detectConflicts
    ret,             \* utils: what the last call returned, [fn, value]
    shortcuts,       \* manager.shortcuts: the Map id -> ShortcutConfig, in insertion order
    lastTriggeredShortcut, \* manager.lastTriggeredShortcut: <<>> (null) or <<ShortcutEvent>>
    pressedKeys,     \* manager.pressedKeys: the set of lower-cased key names
    triggerListeners,\* manager.triggerEmitter.listeners: a Set, in insertion order
    subscribers,     \* manager.subscribers: id -> Set of callbacks, in insertion order
    isInitialized,   \* manager.isInitialized
    bound,           \* the event types for which window holds the manager's handler
    currentScope,    \* manager.currentScope
    handles,         \* the subscriptions the caller holds and has not yet cancelled
    pc,              \* where handleKeyDown stands: "idle", "emit", "notify"
    cur,             \* the key-down event being handled and the forEach cursor
    invoked,         \* the callbacks invoked so far for the event being handled
    tableRef,        \* which Map object the shortcuts store holds
    shortcutsListeners, \* the functions subscribed to the shortcuts store, a Set
    notified,        \* the tables the last call delivered to each of those functions
    heldMaps,        \* the tables the application keeps, as they were when it got them
    value,           \* a Store: store.value
    listeners,       \* a Store: store.listeners, a Set, in insertion order
    frames,          \* a Store: the notify() calls in progress, innermost last: forEach cursors
    received,        \* a Store: what each listener was called with since it subscribed
    taken,           \* a Store: the values set/update gave the store since each listener subscribed
    issued,          \* a Store: how many unsubscribe handles subscribe returned per listener
    used,            \* a Store: the unsubscribe handles that have been called
    calls            \* a Store: how many set, update and subscribe calls were made

utilVars == <<argKeys, argEvent, argDefs, ret>>
envVars == <<navigator, hasWindow>>
tableVars == <<shortcuts, currentScope, tableRef, shortcutsListeners, notified, heldMaps>>
subVars == <<triggerListeners, subscribers, handles>>
keyVars == <<lastTriggeredShortcut, pressedKeys>>
dispatchVars == <<pc, cur, invoked>>
lifeVars == <<isInitialized, bound>>
managerVars == <<tableVars, subVars, keyVars, lifeVars, dispatchVars>>
storeVars == <<value, listeners, frames, received, taken, issued, used, calls>>
vars == <<envVars, utilVars, managerVars, storeVars>>

(***************************************************************************)
(* Strings                                                                 *)
(***************************************************************************)
Ch(s, i) == SubSeq(s, i, i)

UpperLetters == "ABCDEFGHIJKLMNOPQRSTUVWXYZ"
LowerLetters == "abcdefghijklmnopqrstuvwxyz"
Digits == "0123456789"

CharsOf(s) == { Ch(s, i) : i \in 1..Len(s) }

\* \w of a JavaScript regular expression: [A-Za-z0-9_]
WordChars == CharsOf(UpperLetters) \cup CharsOf(LowerLetters) \cup CharsOf(Digits) \cup {"_"}

\* String.prototype.toLowerCase on one character
LowerChar(c) ==
    IF \E i \in 1..Len(UpperLetters) : Ch(UpperLetters, i) = c
    THEN Ch(LowerLetters, CHOOSE i \in 1..Len(UpperLetters) : Ch(UpperLetters, i) = c)
    ELSE c

RECURSIVE toLowerCase(_)
toLowerCase(s) ==
    IF s = "" THEN "" ELSE LowerChar(Ch(s, 1)) \o toLowerCase(SubSeq(s, 2, Len(s)))

\* String.prototype.trim (the white space of the model is the blank)
RECURSIVE trimStart(_)
trimStart(s) ==
    IF s # "" /\ Ch(s, 1) = " " THEN trimStart(SubSeq(s, 2, Len(s))) ELSE s

RECURSIVE trimEnd(_)
trimEnd(s) ==
    IF s # "" /\ Ch(s, Len(s)) = " " THEN trimEnd(SubSeq(s, 1, Len(s) - 1)) ELSE s

trim(s) == trimEnd(trimStart(s))

\* String.prototype.split('+'): "" gives <<"">>, "a+" gives <<"a", "">>
RECURSIVE split(_)
split(s) ==
    IF \E i \in 1..Len(s) : Ch(s, i) = "+"
    THEN LET i == CHOOSE k \in 1..Len(s) :
                     Ch(s, k) = "+" /\ \A j \in 1..(k - 1) : Ch(s, j) # "+"
         IN  <<SubSeq(s, 1, i - 1)>> \o split(SubSeq(s, i + 1, Len(s)))
    ELSE <<s>>

\* String.prototype.includes
includes(s, sub) ==
    \E i \in 1..(Len(s) - Len(sub) + 1) : SubSeq(s, i, i + Len(sub) - 1) = sub

\* /\bmod\b/ matches at position i of s
ModWordAt(s, i) ==
    /\ i + 2 <= Len(s)
    /\ SubSeq(s, i, i + 2) = "mod"
    /\ (i = 1 \/ Ch(s, i - 1) \notin WordChars)
    /\ (i + 3 > Len(s) \/ Ch(s, i + 3) \notin WordChars)

\* s.replace(/\bmod\b/g, modifier), scanning s from position i
RECURSIVE replaceModFrom(_, _, _)
replaceModFrom(s, i, modifier) ==
    IF i > Len(s) THEN ""
    ELSE IF ModWordAt(s, i) THEN modifier \o replaceModFrom(s, i + 3, modifier)
    ELSE Ch(s, i) \o replaceModFrom(s, i + 1, modifier)

\* The mutant of the replacement without the g flag: the first match only.
RECURSIVE replaceFirstModFrom(_, _, _)
replaceFirstModFrom(s, i, modifier) ==
    IF i > Len(s) THEN ""
    ELSE IF ModWordAt(s, i) THEN modifier \o SubSeq(s, i + 3, Len(s))
    ELSE Ch(s, i) \o replaceFirstModFrom(s, i + 1, modifier)

SeqToSet(q) == { q[i] : i \in 1..Len(q) }

(***************************************************************************)
(* src/src/utils.ts                                                        *)
(***************************************************************************)
normalizeKey(key) == toLowerCase(key)

getPlatform ==
    IF ~navigator.defined THEN "linux"
    ELSE LET platform == toLowerCase(navigator.platform)
         IN  IF includes(platform, "mac") THEN "mac"
             ELSE IF includes(platform, "win") THEN "windows"
             ELSE "linux"

isMac == getPlatform = "mac"

resolvePlatformModifier_FirstOnly(keys) ==
    replaceFirstModFrom(keys, 1, IF isMac THEN "meta" ELSE "ctrl")

resolvePlatformModifier(keys) ==
    replaceModFrom(keys, 1, IF isMac THEN "meta" ELSE "ctrl")

parseKeyCombination(keys) ==
    LET raw == split(toLowerCase(resolvePlatformModifier(keys)))
        parts == [i \in 1..Len(raw) |-> trim(raw[i])]
    IN  [modifiers |-> SeqToSet(SubSeq(parts, 1, Len(parts) - 1)),
         key |-> parts[Len(parts)]]

\* The mutant of the matcher that asks for "at least" the combination's
\* modifiers instead of exactly them.
matchesKeyCombination_AtLeast(event, keys) ==
    LET p == parseKeyCombination(keys)
    IN  /\ normalizeKey(event.key) = p.key
        /\ ("ctrl" \in p.modifiers) => event.ctrlKey
        /\ ("shift" \in p.modifiers) => event.shiftKey
        /\ ("alt" \in p.modifiers) => event.altKey
        /\ ("meta" \in p.modifiers) => event.metaKey

matchesKeyCombination(event, keys) ==
    LET p == parseKeyCombination(keys)
        eventKey == normalizeKey(event.key)
    IN  IF eventKey # p.key THEN FALSE
        ELSE LET hasCtrl == ("ctrl" \in p.modifiers) = event.ctrlKey
                 hasShift == ("shift" \in p.modifiers) = event.shiftKey
                 hasAlt == ("alt" \in p.modifiers) = event.altKey
                 hasMeta == ("meta" \in p.modifiers) = event.metaKey
             IN  hasCtrl /\ hasShift /\ hasAlt /\ hasMeta

\* A Map<string, string> as a function; get gives <<>> for undefined
MapPut(m, k, v) == [x \in (DOMAIN m) \cup {k} |-> IF x = k THEN v ELSE m[x]]

\* The for loop of detectConflicts from index i on. `existing` is tested for
\* truthiness: undefined and the empty string are both falsy.
RECURSIVE detectConflictsFrom(_, _, _, _)
detectConflictsFrom(list, i, seenKeys, conflicts) ==
    IF i > Len(list) THEN conflicts
    ELSE LET shortcut == list[i]
             normalizedKeys == toLowerCase(resolvePlatformModifier(shortcut.keys))
             existing == IF normalizedKeys \in DOMAIN seenKeys
                         THEN <<seenKeys[normalizedKeys]>> ELSE <<>>
         IN  IF existing # <<>> /\ existing[1] # ""
             THEN detectConflictsFrom(list, i + 1, seenKeys,
                      Append(conflicts, [id1 |-> existing[1], id2 |-> shortcut.id,
                                         keys |-> normalizedKeys]))
             ELSE detectConflictsFrom(list, i + 1,
                      MapPut(seenKeys, normalizedKeys, shortcut.id), conflicts)

detectConflicts(list) == detectConflictsFrom(list, 1, <<>>, <<>>)

(***************************************************************************)
(* The inputs of the utility functions                                     *)
(***************************************************************************)
NoNavigator == [defined |-> FALSE, platform |-> ""]

MacPlatforms == {"MacIntel", "macOS"}
OtherPlatforms == {"Win32", "Linux x86_64", "iPhone"}

Navigators ==
    {NoNavigator} \cup { [defined |-> TRUE, platform |-> p] : p \in MacPlatforms \cup OtherPlatforms }

MacNavigator == [defined |-> TRUE, platform |-> "MacIntel"]
WinNavigator == [defined |-> TRUE, platform |-> "Win32"]

\* Combination strings: well-formed ones, the same combination written in
\* several ways, and malformed ones.
KeyStrings ==
    {"s", "S", "ctrl+s", "Ctrl+S", "mod+s", "Mod+s", "meta+s", "shift+s", "alt+s",
     "ctrl+shift+s", "shift+ctrl+s", "mod+shift+s", "shift+mod+s", "mod+mod+s",
     "mod+ctrl+s", "meta+ctrl+s", "ctrl+alt+shift+meta+s", "ctrl + s", " mod + s ",
     "ctrl+ctrl+s", "cmd+s", "control+s", "modx+s", "", "ctrl+", "+", "ctrl++", "mod",
     "ctrl+control", "shift+k"}

EventKeys == {"s", "S", "k", "+", "Control", "ctrl", ""}

KeyboardEvents ==
    [key : EventKeys, ctrlKey : BOOLEAN, shiftKey : BOOLEAN, altKey : BOOLEAN, metaKey : BOOLEAN]

KeyEvent(key, mods) ==
    [key |-> key, ctrlKey |-> "ctrl" \in mods, shiftKey |-> "shift" \in mods,
     altKey |-> "alt" \in mods, metaKey |-> "meta" \in mods]

NoEvent == KeyEvent("", {})
NoRet == [fn |-> "none", value |-> FALSE]

\* The longest sequence of definitions handed to detectConflicts
MaxDefs == 3

ConflictIds == {"", "a", "b"}
ConflictKeys == {"mod+s", "ctrl+s", "Ctrl+S", "ctrl+shift+s", "shift+ctrl+s"}
ConflictDefs == [id : ConflictIds, keys : ConflictKeys]

SeqsUpTo(S, n) == UNION { [1..k -> S] : k \in 0..n }

(***************************************************************************)
(* src/src/manager.ts: values                                              *)
(*                                                                         *)
(* An optional property is <<>> when undefined and <<v>> when set to v.    *)
(* A Map or a Set is a sequence in insertion order without duplicates.     *)
(* A ShortcutEvent is [id, originalEvent]; its timestamp is left out.      *)
(***************************************************************************)
Undefined == <<>>
Some(v) == <<v>>

\* JavaScript truthiness of an optional string
Truthy(opt) == opt # Undefined /\ opt[1] # ""

ShortcutConfig(id, name, keys, preventDefault, enabled, scope) ==
    [id |-> id, name |-> name, keys |-> keys, preventDefault |-> preventDefault,
     enabled |-> enabled, scope |-> scope]

MODIFIER_KEYS == {"meta", "control", "alt", "shift"}

\* Map.prototype.has / get / set / delete on the shortcut table
MapHas(map, id) == \E i \in 1..Len(map) : map[i].id = id
MapIndex(map, id) == CHOOSE i \in 1..Len(map) : map[i].id = id
MapGet(map, id) == IF MapHas(map, id) THEN Some(map[MapIndex(map, id)]) ELSE Undefined
MapSet(map, id, config) ==
    IF MapHas(map, id) THEN [map EXCEPT ![MapIndex(map, id)] = config]
    ELSE Append(map, config)
MapDelete(map, id) == SelectSeq(map, LAMBDA c : c.id # id)

RECURSIVE MapSetAll(_, _)
MapSetAll(map, configs) ==
    IF configs = <<>> THEN map
    ELSE MapSetAll(MapSet(map, Head(configs).id, Head(configs)), Tail(configs))

\* Set.prototype.add / delete
SetAdd(set, x) == IF x \in SeqToSet(set) THEN set ELSE Append(set, x)
SetDelete(set, x) == SelectSeq(set, LAMBDA y : y # x)

\* loadShortcuts: new Map(configs.map(c => [c.id, c]))
loadShortcuts(configs) == MapSetAll(<<>>, configs)

\* The mutant of registration that merges the new definition into the old
\* one: a property the new definition leaves undefined keeps its old value.
registerShortcutUpdater_Merge(map, config) ==
    IF MapHas(map, config.id)
    THEN LET old == map[MapIndex(map, config.id)]
         IN  MapSet(map, config.id,
                 [config EXCEPT !.enabled = IF @ = Undefined THEN old.enabled ELSE @,
                                !.scope = IF @ = Undefined THEN old.scope ELSE @])
    ELSE MapSet(map, config.id, config)

\* The mutant of registration that moves a definition it replaces to the end
\* of the table.
registerShortcutUpdater_MovesToEnd(map, config) ==
    Append(MapDelete(map, config.id), config)

\* The updaters handed to shortcuts.update
registerShortcutUpdater(map, config) == MapSet(map, config.id, config)

registerShortcutsUpdater(map, configs) == MapSetAll(map, configs)

unregisterShortcutUpdater(map, id) == MapDelete(map, id)

\* The mutant of enableShortcut that creates a definition for an absent id.
enableShortcutUpdater_Creates(map, id) ==
    LET shortcut == MapGet(map, id)
    IN  IF shortcut # Undefined
        THEN MapSet(map, id, [shortcut[1] EXCEPT !.enabled = Some(TRUE)])
        ELSE MapSet(map, id, ShortcutConfig(id, "", "", Undefined, Some(TRUE), Undefined))

enableShortcutUpdater(map, id) ==
    LET shortcut == MapGet(map, id)
    IN  IF shortcut # Undefined
        THEN MapSet(map, id, [shortcut[1] EXCEPT !.enabled = Some(TRUE)])
        ELSE map

disableShortcutUpdater(map, id) ==
    LET shortcut == MapGet(map, id)
    IN  IF shortcut # Undefined
        THEN MapSet(map, id, [shortcut[1] EXCEPT !.enabled = Some(FALSE)])
        ELSE map

getShortcut(id) == MapGet(shortcuts, id)

getAllShortcuts == shortcuts

\* The mutant of getActiveShortcuts that keeps a definition only when its
\* enabled is true: a definition registered without enabled is left out.
getActiveShortcuts_Truthy == SelectSeq(getAllShortcuts, LAMBDA c : c.enabled = Some(TRUE))

getActiveShortcuts == SelectSeq(getAllShortcuts, LAMBDA c : c.enabled # Some(FALSE))

\* checkConflicts: what it hands to console.warn (nothing when empty)
checkConflicts(map) == detectConflicts(map)

\* The scope test of the scan: TRUE when the loop `continue`s
ScopeSkips(config, scope) ==
    Truthy(config.scope) /\ config.scope[1] # scope /\ config.scope[1] # "global"

\* The for loop of handleKeyDown over the table: the ids whose dispatch it
\* runs, in order. The break ends the loop at the first match.
RECURSIVE matchingShortcuts(_, _, _)
matchingShortcuts(map, scope, event) ==
    IF map = <<>> THEN <<>>
    ELSE LET config == Head(map)
         IN  IF config.enabled = Some(FALSE)
             THEN matchingShortcuts(Tail(map), scope, event)
             ELSE IF ScopeSkips(config, scope)
             THEN matchingShortcuts(Tail(map), scope, event)
             ELSE IF matchesKeyCombination(event, config.keys)
             THEN <<config.id>>
             ELSE matchingShortcuts(Tail(map), scope, event)

\* The mutant of the clearing that empties the set, modifiers included.
clearNonModifierKeys_All(keys) == {}

\* The updater of clearNonModifierKeys
clearNonModifierKeys(keys) == { key \in keys : key \in MODIFIER_KEYS }

\* subscribe: the Set of id (created when absent) gets the callback
subscribeUpdate(subs, id, callback) ==
    [subs EXCEPT ![id] = SetAdd(@, callback)]

\* The mutant of unsubscribe that drops the whole Set of the id.
unsubscribeUpdate_WholeId(subs, id, callback) ==
    [subs EXCEPT ![id] = <<>>]

\* unsubscribe: the callback leaves the Set of id; an empty Set is deleted
\* from the Map (the empty sequence stands for "no entry")
unsubscribeUpdate(subs, id, callback) ==
    [subs EXCEPT ![id] = SetDelete(@, callback)]

(***************************************************************************)
(* The manager's callers: ids, callbacks, definitions, events              *)
(***************************************************************************)
Ids == {"a", "b"}
Callbacks == {"f", "g"}
ScopeNames == {"global", "editor"}

\* The most subscriptions to one id with one callback a caller holds at a time
MaxHandles == 2
\* The longest array handed to registerShortcuts
MaxBatch == 2

ConfigsA ==
    { ShortcutConfig("a", "Save", "ctrl+s", Undefined, Undefined, Undefined),
      ShortcutConfig("a", "Save", "ctrl+s", Undefined, Some(FALSE), Undefined),
      ShortcutConfig("a", "Save", "ctrl+s", Undefined, Undefined, Some("editor")),
      ShortcutConfig("a", "Save", "ctrl+s", Undefined, Undefined, Some("")) }

ConfigsB ==
    { ShortcutConfig("b", "Save As", "ctrl+s", Undefined, Undefined, Undefined),
      ShortcutConfig("b", "Save As", "mod+s", Undefined, Undefined, Some("global")),
      ShortcutConfig("b", "Find", "s", Some(FALSE), Undefined, Some("editor")) }

Configs == ConfigsA \cup ConfigsB

\* The definitions registerShortcuts is called with, and those a callback registers
BatchConfigs ==
    { ShortcutConfig("a", "Save", "ctrl+s", Undefined, Undefined, Undefined),
      ShortcutConfig("a", "Save", "ctrl+s", Undefined, Some(FALSE), Undefined),
      ShortcutConfig("b", "Save As", "ctrl+s", Undefined, Undefined, Undefined) }

\* The arrays registerShortcuts is called with
Batches == SeqsUpTo(BatchConfigs, MaxBatch)

NoConfig == ShortcutConfig("", "", "", Undefined, Undefined, Undefined)

evControl == KeyEvent("Control", {"ctrl"})
evCtrlS == KeyEvent("s", {"ctrl"})
evS == KeyEvent("s", {})
ManagerEvents == {evControl, evCtrlS, evS}

\* One call of the manager's API
Op(type, config, configs, id, scope, cb) ==
    [type |-> type, config |-> config, configs |-> configs, id |-> id,
     scope |-> scope, cb |-> cb]

OpNone == Op("none", NoConfig, <<>>, "", "", "")
OpRegisterShortcut(config) == Op("registerShortcut", config, <<>>, "", "", "")
OpRegisterShortcuts(configs) == Op("registerShortcuts", NoConfig, configs, "", "", "")
OpUnregisterShortcut(id) == Op("unregisterShortcut", NoConfig, <<>>, id, "", "")
OpEnableShortcut(id) == Op("enableShortcut", NoConfig, <<>>, id, "", "")
OpDisableShortcut(id) == Op("disableShortcut", NoConfig, <<>>, id, "", "")
OpSetScope(scope) == Op("setScope", NoConfig, <<>>, "", scope, "")
OpSubscribe(id, cb) == Op("subscribe", NoConfig, <<>>, id, "", cb)
OpUnsubscribe(id, cb) == Op("unsubscribe", NoConfig, <<>>, id, "", cb)
OpOnTrigger(cb) == Op("onTrigger", NoConfig, <<>>, "", "", cb)
OpOffTrigger(cb) == Op("offTrigger", NoConfig, <<>>, "", "", cb)

\* What a callback may do with the shortcut table and the scope while it runs
TableOps ==
    {OpNone}
    \cup { OpRegisterShortcut(c) : c \in BatchConfigs }
    \cup { OpUnregisterShortcut(id) : id \in Ids }
    \cup { OpEnableShortcut(id) : id \in Ids }
    \cup { OpDisableShortcut(id) : id \in Ids }
    \cup { OpSetScope(s) : s \in ScopeNames }

\* What a callback may do with the subscriptions while it runs
SubscriptionOps ==
    {OpNone}
    \cup { OpSubscribe(id, cb) : id \in Ids, cb \in Callbacks }
    \cup { OpUnsubscribe(id, cb) : id \in Ids, cb \in Callbacks }

(***************************************************************************)
(* src/src/manager.ts: the API calls                                       *)
(***************************************************************************)
\* A call the caller can make: a subscription is cancelled through a handle
\* the caller holds, a global listener through the function onTrigger gave
OpEnabled(op) ==
    CASE op.type = "subscribe" -> handles[<<op.id, op.cb>>] < MaxHandles
      [] op.type = "unsubscribe" -> handles[<<op.id, op.cb>>] > 0
      [] op.type = "offTrigger" -> op.cb \in SeqToSet(triggerListeners)
      [] OTHER -> TRUE

\* The calls that end in this.shortcuts.update(...)
Mutates(op) ==
    op.type \in {"registerShortcut", "registerShortcuts", "unregisterShortcut",
                 "enableShortcut", "disableShortcut"}

\* The functions the application subscribes to the shortcuts store
Observers == {"o1", "o2"}
MaxHeld == 1

\* A Map object, and its entries as its holder saw them
Snapshot(ref, table) == [ref |-> ref, table |-> table]
HeldRefs == { h.ref : h \in heldMaps }

\* The mutant of the updaters that writes into the Map the store holds
\* instead of copying it.
NewMap_InPlace == tableRef

\* new Map(map): an object no one holds yet
NewMap == CHOOSE n \in 0..MaxHeld : n \notin HeldRefs /\ \A m \in 0..(n - 1) : m \in HeldRefs

ShortcutsAfter(op) ==
    CASE op.type = "registerShortcut" -> registerShortcutUpdater(shortcuts, op.config)
      [] op.type = "registerShortcuts" -> registerShortcutsUpdater(shortcuts, op.configs)
      [] op.type = "unregisterShortcut" -> unregisterShortcutUpdater(shortcuts, op.id)
      [] op.type = "enableShortcut" -> enableShortcutUpdater(shortcuts, op.id)
      [] op.type = "disableShortcut" -> disableShortcutUpdater(shortcuts, op.id)
      [] OTHER -> shortcuts

\* The mutant of the calls' effect on the subscriptions in which
\* unregisterShortcut drops the callbacks of the id it removes.
SubscribersAfter_DropsUnregistered(op) ==
    CASE op.type = "subscribe" -> subscribeUpdate(subscribers, op.id, op.cb)
      [] op.type = "unsubscribe" -> unsubscribeUpdate(subscribers, op.id, op.cb)
      [] op.type = "unregisterShortcut" -> [subscribers EXCEPT ![op.id] = <<>>]
      [] OTHER -> subscribers

SubscribersAfter(op) ==
    CASE op.type = "subscribe" -> subscribeUpdate(subscribers, op.id, op.cb)
      [] op.type = "unsubscribe" -> unsubscribeUpdate(subscribers, op.id, op.cb)
      [] OTHER -> subscribers

ListenersAfter(op) ==
    CASE op.type = "onTrigger" -> SetAdd(triggerListeners, op.cb)
      [] op.type = "offTrigger" -> SetDelete(triggerListeners, op.cb)
      [] OTHER -> triggerListeners

\* Store.update on the shortcuts store: one notify() of the new Map
NotifiedAfter(op) ==
    IF Mutates(op)
    THEN [o \in Observers |->
            IF o \in SeqToSet(shortcutsListeners)
            THEN <<Snapshot(NewMap, ShortcutsAfter(op))>>
            ELSE <<>>]
    ELSE notified

HandlesAfter(op) ==
    CASE op.type = "subscribe" -> [handles EXCEPT ![<<op.id, op.cb>>] = @ + 1]
      [] op.type = "unsubscribe" -> [handles EXCEPT ![<<op.id, op.cb>>] = @ - 1]
      [] OTHER -> handles

\* The effect of one API call on the manager
Effect(op) ==
    /\ OpEnabled(op)
    /\ shortcuts' = ShortcutsAfter(op)
    /\ tableRef' = IF Mutates(op) THEN NewMap ELSE tableRef
    /\ notified' = NotifiedAfter(op)
    /\ UNCHANGED <<shortcutsListeners, heldMaps>>
    /\ currentScope' = IF op.type = "setScope" THEN op.scope ELSE currentScope
    /\ subscribers' = SubscribersAfter(op)
    /\ triggerListeners' = ListenersAfter(op)
    /\ handles' = HandlesAfter(op)

\* A call made by the application between two events
ApiCall(op) ==
    /\ pc = "idle"
    /\ Effect(op)
    /\ UNCHANGED <<envVars, storeVars, utilVars, keyVars, lifeVars, dispatchVars>>

registerShortcut(config) == ApiCall(OpRegisterShortcut(config))
registerShortcuts(configs) == ApiCall(OpRegisterShortcuts(configs))
unregisterShortcut(id) == ApiCall(OpUnregisterShortcut(id))
enableShortcut(id) == ApiCall(OpEnableShortcut(id))
disableShortcut(id) == ApiCall(OpDisableShortcut(id))

\* manager.shortcuts.subscribe(o): Store.subscribe calls o with the table
shortcutsSubscribe(o) ==
    /\ pc = "idle"
    /\ shortcutsListeners' = SetAdd(shortcutsListeners, o)
    /\ notified' = [notified EXCEPT ![o] = <<Snapshot(tableRef, shortcuts)>>]
    /\ UNCHANGED <<shortcuts, currentScope, tableRef, heldMaps>>
    /\ UNCHANGED <<envVars, storeVars, utilVars, subVars, keyVars, lifeVars, dispatchVars>>

\* The function manager.shortcuts.subscribe(o) returned
shortcutsUnsubscribe(o) ==
    /\ pc = "idle"
    /\ o \in SeqToSet(shortcutsListeners)
    /\ shortcutsListeners' = SetDelete(shortcutsListeners, o)
    /\ notified' = [notified EXCEPT ![o] = <<>>]
    /\ UNCHANGED <<shortcuts, currentScope, tableRef, heldMaps>>
    /\ UNCHANGED <<envVars, storeVars, utilVars, subVars, keyVars, lifeVars, dispatchVars>>

\* manager.shortcuts.get(): the application keeps the Map it is given
shortcutsGet ==
    /\ pc = "idle"
    /\ Cardinality(heldMaps \cup {Snapshot(tableRef, shortcuts)}) <= MaxHeld
    /\ heldMaps' = heldMaps \cup {Snapshot(tableRef, shortcuts)}
    /\ UNCHANGED <<shortcuts, currentScope, tableRef, shortcutsListeners, notified>>
    /\ UNCHANGED <<envVars, storeVars, utilVars, subVars, keyVars, lifeVars, dispatchVars>>

\* The function o keeps the Map it was last called with
keepNotified(o) ==
    /\ pc = "idle"
    /\ notified[o] # <<>>
    /\ Cardinality(heldMaps \cup {notified[o][Len(notified[o])]}) <= MaxHeld
    /\ heldMaps' = heldMaps \cup {notified[o][Len(notified[o])]}
    /\ UNCHANGED <<shortcuts, currentScope, tableRef, shortcutsListeners, notified>>
    /\ UNCHANGED <<envVars, storeVars, utilVars, subVars, keyVars, lifeVars, dispatchVars>>

\* The application drops a Map it kept
dropHeld(h) ==
    /\ pc = "idle"
    /\ h \in heldMaps
    /\ heldMaps' = heldMaps \ {h}
    /\ UNCHANGED <<shortcuts, currentScope, tableRef, shortcutsListeners, notified>>
    /\ UNCHANGED <<envVars, storeVars, utilVars, subVars, keyVars, lifeVars, dispatchVars>>
setScope(scope) == ApiCall(OpSetScope(scope))
subscribe(id, callback) == ApiCall(OpSubscribe(id, callback))
unsubscribe(id, callback) == ApiCall(OpUnsubscribe(id, callback))
onTrigger(callback) == ApiCall(OpOnTrigger(callback))
offTrigger(callback) == ApiCall(OpOffTrigger(callback))

(***************************************************************************)
(* src/src/manager.ts: the event handlers                                  *)
(*                                                                         *)
(* handleKeyDown runs its callbacks one at a time: a callback is the       *)
(* application's code and may call the API before it returns. Set.forEach  *)
(* walks the live Set: cur.idx entries are behind the cursor, an entry     *)
(* deleted behind the cursor moves it back, an entry added is visited.     *)
(***************************************************************************)
NoCur ==
    [event |-> NoEvent, fired |-> <<>>, idx |-> 0, detached |-> FALSE,
     defaultPrevented |-> FALSE, pressedBefore |-> {}]

\* The entries of `old` up to position k that are still in `new`
CursorAfter(old, new, k) == Cardinality({ j \in 1..k : old[j] \in SeqToSet(new) })

\* const shortcutEvent = {id, timestamp, originalEvent: event}, while the
\* loop body runs
shortcutEvent == [id |-> Head(cur.fired), originalEvent |-> cur.event]

\* The mutant of the loop body that does not publish the trigger event
BeginTrigger_NoPublish(event, fired, before) ==
    LET config == MapGet(shortcuts, Head(fired))[1]
    IN  /\ lastTriggeredShortcut' = lastTriggeredShortcut
        /\ pc' = "emit"
        /\ cur' = [event |-> event, fired |-> fired, idx |-> 0, detached |-> FALSE,
                   defaultPrevented |-> config.preventDefault # Some(FALSE),
                   pressedBefore |-> before]

\* The body of the loop at a match, up to lastTriggeredShortcut.set
BeginTrigger(event, fired, before) ==
    LET config == MapGet(shortcuts, Head(fired))[1]
    IN  /\ lastTriggeredShortcut' = Some([id |-> Head(fired), originalEvent |-> event])
        /\ pc' = "emit"
        /\ cur' = [event |-> event, fired |-> fired, idx |-> 0, detached |-> FALSE,
                   defaultPrevented |-> config.preventDefault # Some(FALSE),
                   pressedBefore |-> before]

handleKeyDown(event) ==
    LET fired == matchingShortcuts(shortcuts, currentScope, event)
    IN  /\ "keydown" \in bound
        /\ pc = "idle"
        /\ pressedKeys' = pressedKeys \cup {toLowerCase(event.key)}
        /\ IF fired = <<>>
           THEN UNCHANGED <<lastTriggeredShortcut, pc, cur>>
           ELSE BeginTrigger(event, fired, pressedKeys)
        /\ invoked' = <<>>
        /\ UNCHANGED <<envVars, storeVars, utilVars, tableVars, subVars, lifeVars>>

\* triggerEmitter.emit: the next global listener runs and makes the call op
InvokeListener(op) ==
    /\ pc = "emit"
    /\ cur.idx < Len(triggerListeners)
    /\ Effect(op)
    /\ invoked' = Append(invoked, [kind |-> "listener", id |-> Head(cur.fired),
                                   cb |-> triggerListeners[cur.idx + 1],
                                   event |-> shortcutEvent])
    /\ cur' = [cur EXCEPT !.idx = CursorAfter(triggerListeners, triggerListeners', cur.idx + 1)]
    /\ UNCHANGED <<envVars, storeVars, utilVars, keyVars, lifeVars, pc>>

\* notifySubscribers: callbacks = this.subscribers.get(id)
StartNotify ==
    /\ pc = "emit"
    /\ cur.idx >= Len(triggerListeners)
    /\ pc' = "notify"
    /\ cur' = [cur EXCEPT !.idx = 0, !.detached = (subscribers[Head(cur.fired)] = <<>>)]
    /\ UNCHANGED <<envVars, storeVars, utilVars, tableVars, subVars, keyVars, lifeVars, invoked>>

\* callbacks.forEach: the next callback of the fired id runs and makes the
\* call op. When the Set becomes empty it is deleted from the Map, and a
\* later subscribe creates another Set, which this forEach does not walk.
InvokeCallback(op) ==
    LET id == Head(cur.fired)
    IN  /\ pc = "notify"
        /\ ~cur.detached
        /\ cur.idx < Len(subscribers[id])
        /\ Effect(op)
        /\ invoked' = Append(invoked, [kind |-> "callback", id |-> id,
                                       cb |-> subscribers[id][cur.idx + 1],
                                       event |-> shortcutEvent])
        /\ cur' = [cur EXCEPT !.idx = CursorAfter(subscribers[id], subscribers'[id], cur.idx + 1),
                              !.detached = (subscribers'[id] = <<>>)]
        /\ UNCHANGED <<envVars, storeVars, utilVars, keyVars, lifeVars, pc>>

\* triggerEmitter.emit: the next global listener throws. Nothing catches
\* it: the forEach, emit and handleKeyDown end there.
ListenerThrows ==
    /\ pc = "emit"
    /\ cur.idx < Len(triggerListeners)
    /\ invoked' = Append(invoked, [kind |-> "listener", id |-> Head(cur.fired),
                                   cb |-> triggerListeners[cur.idx + 1],
                                   event |-> shortcutEvent])
    /\ pc' = "idle"
    /\ cur' = NoCur
    /\ UNCHANGED <<envVars, storeVars, utilVars, tableVars, subVars, keyVars, lifeVars>>

\* callbacks.forEach: the next callback of the fired id throws. Nothing
\* catches it: the forEach, notifySubscribers and handleKeyDown end there.
CallbackThrows ==
    LET id == Head(cur.fired)
    IN  /\ pc = "notify"
        /\ ~cur.detached
        /\ cur.idx < Len(subscribers[id])
        /\ invoked' = Append(invoked, [kind |-> "callback", id |-> id,
                                       cb |-> subscribers[id][cur.idx + 1],
                                       event |-> shortcutEvent])
        /\ pc' = "idle"
        /\ cur' = NoCur
        /\ UNCHANGED <<envVars, storeVars, utilVars, tableVars, subVars, keyVars, lifeVars>>

\* clearNonModifierKeys, and the break that ends the loop
FinishTrigger ==
    /\ pc = "notify"
    /\ cur.detached \/ cur.idx >= Len(subscribers[Head(cur.fired)])
    /\ pressedKeys' = clearNonModifierKeys(pressedKeys)
    /\ pc' = "idle"
    /\ cur' = NoCur
    /\ invoked' = <<>>
    /\ UNCHANGED lastTriggeredShortcut
    /\ UNCHANGED <<envVars, storeVars, utilVars, tableVars, subVars, lifeVars>>

\* The mutant of handleKeyUp that releases every key
handleKeyUp_Clears(event) ==
    /\ "keyup" \in bound
    /\ pc = "idle"
    /\ pressedKeys' = {}
    /\ UNCHANGED <<envVars, storeVars, utilVars, tableVars, subVars, lastTriggeredShortcut,
                   lifeVars, dispatchVars>>

handleKeyUp(event) ==
    /\ "keyup" \in bound
    /\ pc = "idle"
    /\ pressedKeys' = pressedKeys \ {toLowerCase(event.key)}
    /\ UNCHANGED <<envVars, storeVars, utilVars, tableVars, subVars, lastTriggeredShortcut,
                   lifeVars, dispatchVars>>

handleBlur ==
    /\ "blur" \in bound
    /\ pc = "idle"
    /\ pressedKeys' = {}
    /\ UNCHANGED <<envVars, storeVars, utilVars, tableVars, subVars, lastTriggeredShortcut,
                   lifeVars, dispatchVars>>

\* The event types init binds on window and destroy unbinds
WindowEvents == {"keydown", "keyup", "blur"}

\* init; its two early returns are its guard. addEventListener does not add
\* a handler the target already holds for the type.
init ==
    /\ pc = "idle"
    /\ ~isInitialized
    /\ hasWindow
    /\ bound' = bound \cup WindowEvents
    /\ isInitialized' = TRUE
    /\ UNCHANGED <<envVars, storeVars, utilVars, tableVars, subVars, keyVars, dispatchVars>>

\* The mutant of destroy that clears the flag and leaves the handlers bound.
destroy_KeepsBindings ==
    /\ pc = "idle"
    /\ isInitialized
    /\ hasWindow
    /\ isInitialized' = FALSE
    /\ UNCHANGED <<bound, envVars, storeVars, utilVars, tableVars, subVars, keyVars, dispatchVars>>

\* destroy; its two early returns are its guard
destroy ==
    /\ pc = "idle"
    /\ isInitialized
    /\ hasWindow
    /\ bound' = bound \ WindowEvents
    /\ isInitialized' = FALSE
    /\ UNCHANGED <<envVars, storeVars, utilVars, tableVars, subVars, keyVars, dispatchVars>>

\* new ShortcutManager({shortcuts: initialShortcuts, scope})
Constructed(initialShortcuts, scope) ==
    /\ currentScope = scope
    /\ shortcuts = IF Len(initialShortcuts) > 0 THEN loadShortcuts(initialShortcuts) ELSE <<>>
    /\ tableRef = 0
    /\ shortcutsListeners = <<>>
    /\ notified = [o \in Observers |-> <<>>]
    /\ heldMaps = {}
    /\ lastTriggeredShortcut = Undefined
    /\ pressedKeys = {}
    /\ triggerListeners = <<>>
    /\ subscribers = [id \in Ids |-> <<>>]
    /\ isInitialized = FALSE
    /\ bound = {}
    /\ handles = [h \in Ids \X Callbacks |-> 0]
    /\ pc = "idle"
    /\ cur = NoCur
    /\ invoked = <<>>

NoUtilCall ==
    /\ argKeys = ""
    /\ argEvent = NoEvent
    /\ argDefs = <<>>
    /\ ret = NoRet

(***************************************************************************)
(* src/src/manager.ts: Store                                               *)
(*                                                                         *)
(* One store and the functions subscribed to it.  A listener may call the  *)
(* store back while it runs; the notify() calls in progress are a stack of *)
(* forEach cursors over the live Set of listeners.                         *)
(***************************************************************************)
StoreListeners == {"l1", "l2"}
StoreValues == {0, 1, 2}
MaxCalls == 5

Delivery(v, how) == [v |-> v, how |-> how]

\* updater of store.update(updater): the next value, from the current one
increment(current) == (current + 1) % Cardinality(StoreValues)

StoreOp(type, v, listener, immediate, react, k) ==
    [type |-> type, v |-> v, listener |-> listener, immediate |-> immediate,
     react |-> react, k |-> k]
StoreNone == StoreOp("none", 0, "", FALSE, Undefined, 0)
StoreOpSet(v) == StoreOp("set", v, "", FALSE, Undefined, 0)
StoreOpUpdate == StoreOp("update", 0, "", FALSE, Undefined, 0)
\* react: the value the listener sets when subscribe calls it, if it sets one
StoreOpSubscribe(listener, immediate, react) ==
    StoreOp("subscribe", 0, listener, immediate, react, 0)
\* the k-th handle subscribe returned for the listener
StoreOpUnsubscribe(listener, k) == StoreOp("unsubscribe", 0, listener, FALSE, Undefined, k)

StoreSubscribeOps ==
    { StoreOpSubscribe(l, FALSE, Undefined) : l \in StoreListeners }
        \cup { StoreOpSubscribe(l, TRUE, r) : l \in StoreListeners,
                                              r \in {Undefined} \cup { Some(v) : v \in StoreValues } }
StoreUnsubscribeOps ==
    { StoreOpUnsubscribe(l, k) : l \in StoreListeners, k \in 1..MaxCalls }
StoreOps ==
    { StoreOpSet(v) : v \in StoreValues } \cup {StoreOpUpdate}
        \cup StoreSubscribeOps \cup StoreUnsubscribeOps

\* createStore(initialValue)
createStore(initialValue) ==
    /\ value = initialValue
    /\ listeners = <<>>
    /\ frames = <<>>
    /\ received = [l \in StoreListeners |-> <<>>]
    /\ taken = [l \in StoreListeners |-> <<>>]
    /\ issued = [l \in StoreListeners |-> 0]
    /\ used = {}
    /\ calls = 0

\* The values the listeners of the set have been owed since they subscribed
TakenAfter(T, set, v) ==
    [l \in StoreListeners |-> IF l \in SeqToSet(set) THEN Append(T[l], v) ELSE T[l]]

\* set(newValue): this.value = newValue; this.notify() starts a forEach
StoreSet(newValue, F, R) ==
    /\ calls < MaxCalls
    /\ value' = newValue
    /\ frames' = Append(F, 0)
    /\ received' = R
    /\ taken' = TakenAfter(taken, listeners, newValue)
    /\ calls' = calls + 1
    /\ UNCHANGED <<listeners, issued, used>>

\* subscribe: this.listeners.add(listener); if (invoke) listener(this.value);
\* the listener called here may set the store (react)
StoreSubscribeBody(listener, invoke, react, F, R) ==
    LET fresh == listener \notin SeqToSet(listeners)
        added == SetAdd(listeners, listener)
        R0 == IF fresh THEN [R EXCEPT ![listener] = <<>>] ELSE R
        T0 == IF fresh THEN [taken EXCEPT ![listener] = <<>>] ELSE taken
        sets_ == invoke /\ react # Undefined
    IN  /\ calls + (IF sets_ THEN 1 ELSE 0) < MaxCalls
        /\ listeners' = added
        /\ issued' = [issued EXCEPT ![listener] = @ + 1]
        /\ received' = IF invoke
                       THEN [R0 EXCEPT ![listener] = Append(@, Delivery(value, "immediate"))]
                       ELSE R0
        /\ value' = IF sets_ THEN react[1] ELSE value
        /\ frames' = IF sets_ THEN Append(F, 0) ELSE F
        /\ taken' = IF sets_ THEN TakenAfter(T0, added, react[1]) ELSE T0
        /\ calls' = calls + (IF sets_ THEN 2 ELSE 1)
        /\ used' = used

\* The mutant of subscribe that calls the listener whatever `immediate` is
StoreSubscribe_Always(listener, immediate, react, F, R) ==
    StoreSubscribeBody(listener, TRUE, react, F, R)

\* subscribe(listener, immediate = true)
StoreSubscribe(listener, immediate, react, F, R) ==
    StoreSubscribeBody(listener, immediate, react, F, R)

\* The function subscribe returned: () => { this.listeners.delete(listener) }
StoreUnsubscribe(listener, k, F, R) ==
    /\ k \in 1..issued[listener]
    /\ listeners' = SetDelete(listeners, listener)
    /\ frames' = [i \in 1..Len(F) |-> CursorAfter(listeners, listeners', F[i])]
    /\ used' = used \cup {<<listener, k>>}
    /\ received' = [R EXCEPT ![listener] = <<>>]
    /\ taken' = [taken EXCEPT ![listener] = <<>>]
    /\ UNCHANGED <<value, issued, calls>>

\* One call on the store, made with the notify() calls F in progress and
\* the deliveries R made so far
StoreApply(op, F, R) ==
    \/ /\ op.type = "none"
       /\ frames' = F
       /\ received' = R
       /\ UNCHANGED <<value, listeners, taken, issued, used, calls>>
    \/ /\ op.type = "set"
       /\ StoreSet(op.v, F, R)
    \/ /\ op.type = "update"
       /\ StoreSet(increment(value), F, R)
    \/ /\ op.type = "subscribe"
       /\ StoreSubscribe(op.listener, op.immediate, op.react, F, R)
    \/ /\ op.type = "unsubscribe"
       /\ StoreUnsubscribe(op.listener, op.k, F, R)

\* A call the application makes on the store while no listener is running
StoreCall(op) ==
    /\ frames = <<>>
    /\ StoreApply(op, frames, received)
    /\ UNCHANGED <<envVars, utilVars, managerVars>>

\* notify: this.listeners.forEach(listener => listener(this.value)), one
\* listener; the listener makes the call op on the store, or none
Deliver(op) ==
    /\ frames # <<>>
    /\ LET top == frames[Len(frames)]
       IN  /\ top < Len(listeners)
           /\ LET listener == listeners[top + 1]
              IN  StoreApply(op,
                             [frames EXCEPT ![Len(frames)] = top + 1],
                             [received EXCEPT ![listener] = Append(@, Delivery(value, "notify"))])
    /\ UNCHANGED <<envVars, utilVars, managerVars>>

\* notify: the forEach has visited every listener of the Set and returns
Return ==
    /\ frames # <<>>
    /\ frames[Len(frames)] >= Len(listeners)
    /\ frames' = SubSeq(frames, 1, Len(frames) - 1)
    /\ UNCHANGED <<value, listeners, received, taken, issued, used, calls>>
    /\ UNCHANGED <<envVars, utilVars, managerVars>>

(***************************************************************************)
(* SpecMatch: the parser and the matcher applied to every input            *)
(***************************************************************************)
InitMatch ==
    /\ navigator \in Navigators
    /\ hasWindow = TRUE
    /\ argKeys \in KeyStrings
    /\ argEvent \in KeyboardEvents
    /\ argDefs = <<>>
    /\ ret = NoRet
    /\ Constructed(<<>>, "global")
    /\ createStore(0)

CallResolve ==
    /\ ret.fn = "none"
    /\ ret' = [fn |-> "resolvePlatformModifier", value |-> resolvePlatformModifier(argKeys)]
    /\ UNCHANGED <<envVars, storeVars, argKeys, argEvent, argDefs, managerVars>>

CallParse ==
    /\ ret.fn = "none"
    /\ ret' = [fn |-> "parseKeyCombination", value |-> parseKeyCombination(argKeys)]
    /\ UNCHANGED <<envVars, storeVars, argKeys, argEvent, argDefs, managerVars>>

CallMatches ==
    /\ ret.fn = "none"
    /\ ret' = [fn |-> "matchesKeyCombination", value |-> matchesKeyCombination(argEvent, argKeys)]
    /\ UNCHANGED <<envVars, storeVars, argKeys, argEvent, argDefs, managerVars>>

NextMatch == CallResolve \/ CallParse \/ CallMatches

SpecMatch == InitMatch /\ [][NextMatch]_vars

(***************************************************************************)
(* SpecConflicts: detectConflicts applied to every sequence of definitions *)
(***************************************************************************)
InitConflicts ==
    /\ navigator \in {MacNavigator, WinNavigator}
    /\ hasWindow = TRUE
    /\ argKeys = ""
    /\ argEvent = NoEvent
    /\ argDefs \in SeqsUpTo(ConflictDefs, MaxDefs)
    /\ ret = NoRet
    /\ Constructed(<<>>, "global")
    /\ createStore(0)

CallDetectConflicts ==
    /\ ret.fn = "none"
    /\ ret' = [fn |-> "detectConflicts", value |-> detectConflicts(argDefs)]
    /\ UNCHANGED <<envVars, storeVars, argKeys, argEvent, argDefs, managerVars>>

NextConflicts == CallDetectConflicts

SpecConflicts == InitConflicts /\ [][NextConflicts]_vars

(***************************************************************************)
(* Spec: the manager, its shortcut table, its scope and the key events;    *)
(* the callbacks change the table and the scope while they run             *)
(***************************************************************************)
Init ==
    /\ navigator = WinNavigator
    /\ hasWindow = TRUE
    /\ NoUtilCall
    /\ Constructed(<<>>, "global")
    /\ createStore(0)

\* One callback per id and one global listener
SubscribeOnce(id) == handles[<<id, "f">>] = 0 /\ subscribe(id, "f")

Next ==
    \/ init
    \/ \E config \in Configs : registerShortcut(config)
    \/ \E configs \in Batches : registerShortcuts(configs)
    \/ \E id \in Ids : unregisterShortcut(id)
    \/ \E id \in Ids : enableShortcut(id)
    \/ \E id \in Ids : disableShortcut(id)
    \/ \E scope \in ScopeNames : setScope(scope)
    \/ \E id \in Ids : SubscribeOnce(id)
    \/ onTrigger("g")
    \/ \E event \in ManagerEvents : handleKeyDown(event)
    \/ \E event \in ManagerEvents : handleKeyUp(event)
    \/ handleBlur
    \/ \E op \in TableOps : InvokeListener(op)
    \/ StartNotify
    \/ \E op \in TableOps : InvokeCallback(op)
    \/ FinishTrigger

Spec == Init /\ [][Next]_vars

(***************************************************************************)
(* SpecTable: the application's calls on the shortcut table                *)
(***************************************************************************)
NextTable ==
    \/ \E config \in Configs : registerShortcut(config)
    \/ \E configs \in Batches : registerShortcuts(configs)
    \/ \E id \in Ids : unregisterShortcut(id)
    \/ \E id \in Ids : enableShortcut(id)
    \/ \E id \in Ids : disableShortcut(id)

SpecTable == Init /\ [][NextTable]_vars

(***************************************************************************)
(* SpecSubs: the manager with a fixed table; the application and the       *)
(* callbacks subscribe and unsubscribe                                     *)
(***************************************************************************)
InitialShortcuts ==
    << ShortcutConfig("a", "Save", "ctrl+s", Undefined, Undefined, Undefined),
       ShortcutConfig("b", "Find", "s", Undefined, Undefined, Undefined) >>

InitSubs ==
    /\ navigator = WinNavigator
    /\ hasWindow = TRUE
    /\ NoUtilCall
    /\ Constructed(InitialShortcuts, "global")
    /\ createStore(0)

NextSubs ==
    \/ init
    \/ destroy
    \/ \E id \in Ids, cb \in Callbacks : subscribe(id, cb)
    \/ \E id \in Ids, cb \in Callbacks : unsubscribe(id, cb)
    \/ \E event \in {evCtrlS, evS} : handleKeyDown(event)
    \/ StartNotify
    \/ \E op \in SubscriptionOps : InvokeCallback(op)
    \/ FinishTrigger

SpecSubs == InitSubs /\ [][NextSubs]_vars

(***************************************************************************)
(* SpecRegistry: the application registers and unregisters the ids it      *)
(* subscribes to, in any order, and the key events fire them               *)
(***************************************************************************)
NextRegistry ==
    \/ init
    \/ \E config \in SeqToSet(InitialShortcuts) : registerShortcut(config)
    \/ \E id \in Ids : unregisterShortcut(id)
    \/ \E id \in Ids : enableShortcut(id)
    \/ \E id \in Ids : disableShortcut(id)
    \/ \E id \in Ids : SubscribeOnce(id)
    \/ \E id \in Ids : unsubscribe(id, "f")
    \/ \E event \in {evCtrlS, evS} : handleKeyDown(event)
    \/ StartNotify
    \/ InvokeCallback(OpNone)
    \/ FinishTrigger

SpecRegistry == Init /\ [][NextRegistry]_vars

(***************************************************************************)
(* SpecLifecycle: init and destroy in any order, with and without a host   *)
(* window, and the events the window delivers to the handlers it holds     *)
(***************************************************************************)
InitLifecycle ==
    /\ navigator = WinNavigator
    /\ hasWindow \in BOOLEAN
    /\ NoUtilCall
    /\ Constructed(InitialShortcuts, "global")
    /\ createStore(0)

NextLifecycle ==
    \/ init
    \/ destroy
    \/ \E id \in Ids : SubscribeOnce(id)
    \/ onTrigger("g")
    \/ \E event \in ManagerEvents : handleKeyDown(event)
    \/ \E event \in ManagerEvents : handleKeyUp(event)
    \/ handleBlur
    \/ InvokeListener(OpNone)
    \/ StartNotify
    \/ InvokeCallback(OpNone)
    \/ FinishTrigger

SpecLifecycle == InitLifecycle /\ [][NextLifecycle]_vars

(***************************************************************************)
(* SpecSnapshots: the application changes the table, subscribes to the     *)
(* shortcuts store and keeps the Maps the store gives it                   *)
(***************************************************************************)
SnapshotConfigs ==
    { ShortcutConfig("a", "Save", "ctrl+s", Undefined, Undefined, Undefined),
      ShortcutConfig("b", "Find", "s", Undefined, Some(FALSE), Undefined) }

\* The arrays of two definitions registerShortcuts is called with
SnapshotBatches == { <<c1, c2>> : c1, c2 \in SnapshotConfigs }

NextSnapshots ==
    \/ \E config \in SnapshotConfigs : registerShortcut(config)
    \/ \E configs \in SnapshotBatches : registerShortcuts(configs)
    \/ \E id \in Ids : unregisterShortcut(id)
    \/ enableShortcut("a")
    \/ disableShortcut("a")
    \/ \E o \in Observers : shortcutsSubscribe(o)
    \/ \E o \in Observers : shortcutsUnsubscribe(o)
    \/ shortcutsGet
    \/ \E o \in Observers : keepNotified(o)
    \/ \E h \in heldMaps : dropHeld(h)

SpecSnapshots == Init /\ [][NextSnapshots]_vars

(***************************************************************************)
(* SpecDispatch: the manager with a fixed table; the application adds and  *)
(* removes callbacks and global listeners between the events, in any       *)
(* order, and the callbacks make no call                                   *)
(***************************************************************************)
NextDispatch ==
    \/ init
    \/ \E id \in Ids, cb \in Callbacks : subscribe(id, cb)
    \/ \E id \in Ids, cb \in Callbacks : unsubscribe(id, cb)
    \/ \E cb \in Callbacks : onTrigger(cb)
    \/ \E cb \in Callbacks : offTrigger(cb)
    \/ \E event \in {evCtrlS, evS} : handleKeyDown(event)
    \/ InvokeListener(OpNone)
    \/ StartNotify
    \/ InvokeCallback(OpNone)
    \/ FinishTrigger

SpecDispatch == InitSubs /\ [][NextDispatch]_vars

(***************************************************************************)
(* SpecKeys: the key events the window delivers, in any order, while the   *)
(* table is empty or holds ctrl+s, and the scope changes                   *)
(***************************************************************************)
NextKeys ==
    \/ init
    \/ destroy
    \/ registerShortcut(ShortcutConfig("a", "Save", "ctrl+s", Undefined, Undefined, Undefined))
    \/ setScope("editor")
    \/ SubscribeOnce("a")
    \/ \E event \in ManagerEvents : handleKeyDown(event)
    \/ \E event \in ManagerEvents : handleKeyUp(event)
    \/ handleBlur
    \/ StartNotify
    \/ InvokeCallback(OpNone)
    \/ FinishTrigger

SpecKeys == Init /\ [][NextKeys]_vars

(***************************************************************************)
(* SpecThrow: the manager with a fixed table; the listeners and the        *)
(* callbacks return or throw                                               *)
(***************************************************************************)
NextThrow ==
    \/ init
    \/ \E id \in Ids, cb \in Callbacks : subscribe(id, cb)
    \/ \E cb \in Callbacks : onTrigger(cb)
    \/ \E event \in {evCtrlS, evS} : handleKeyDown(event)
    \/ InvokeListener(OpNone)
    \/ ListenerThrows
    \/ StartNotify
    \/ InvokeCallback(OpNone)
    \/ CallbackThrows
    \/ FinishTrigger

SpecThrow == InitSubs /\ [][NextThrow]_vars

(***************************************************************************)
(* SpecStore: one store; the application and the listeners set it, update  *)
(* it, subscribe to it and call the functions subscribe returned           *)
(***************************************************************************)
InitStore ==
    /\ navigator = WinNavigator
    /\ hasWindow = TRUE
    /\ NoUtilCall
    /\ Constructed(<<>>, "global")
    /\ createStore(0)

NextStore ==
    \/ \E op \in StoreOps : StoreCall(op)
    \/ \E op \in StoreOps \cup {StoreNone} : Deliver(op)
    \/ Return

SpecStore == InitStore /\ [][NextStore]_vars

(***************************************************************************)
(* The claims about the parser, the matcher and the conflict detector      *)
(***************************************************************************)
FourModifiers == {"ctrl", "shift", "alt", "meta"}

\* The modifiers whose flag the event asserts
HeldModifiers(event) ==
    { m \in FourModifiers :
        \/ m = "ctrl" /\ event.ctrlKey
        \/ m = "shift" /\ event.shiftKey
        \/ m = "alt" /\ event.altKey
        \/ m = "meta" /\ event.metaKey }

\* C3: when the event's lower-cased key is the combination's literal key,
\* matchesKeyCombination returns TRUE exactly when the modifiers among ctrl,
\* shift, alt, meta that the combination names are the ones the event
\* holds; an event holding a modifier the combination does not name never
\* matches, nor does one lacking a modifier the combination names.
C3_ExactModifierSet ==
    ret.fn = "matchesKeyCombination" =>
        LET p == parseKeyCombination(argKeys)
            named == p.modifiers \cap FourModifiers
            held == HeldModifiers(argEvent)
        IN  /\ toLowerCase(argEvent.key) = p.key => (ret.value <=> held = named)
            /\ held \ named # {} => ~ret.value
            /\ named \ held # {} => ~ret.value

\* C3 witness: "ctrl+s" against an event with ctrl and shift held on s
C3_Witness ==
    /\ ret.fn = "matchesKeyCombination"
    /\ argKeys = "ctrl+s"
    /\ argEvent = KeyEvent("s", {"ctrl", "shift"})
    /\ ret.value = FALSE

RECURSIVE JoinPlus(_)
JoinPlus(parts) ==
    IF Len(parts) = 1 THEN parts[1] ELSE parts[1] \o "+" \o JoinPlus(Tail(parts))

\* The modifier the platform's classification asks for
PlatformModifier ==
    IF navigator.defined /\ navigator.platform \in MacPlatforms THEN "meta" ELSE "ctrl"

\* The combination with each of its mod tokens written as m
WrittenWith(keys, m) ==
    LET parts == split(keys)
    IN  JoinPlus([i \in 1..Len(parts) |-> IF trim(parts[i]) = "mod" THEN m ELSE parts[i]])

\* C4: resolvePlatformModifier turns every mod token into meta on a platform
\* classified as Mac and into ctrl on any other, leaving the other tokens
\* alone; the combination matches exactly the events that the combination
\* written with meta (ctrl) in place of mod matches.
C4_ModResolvesToPlatformModifier ==
    /\ ret.fn = "resolvePlatformModifier" =>
          LET parts == split(argKeys)
              resolved == split(ret.value)
          IN  /\ Len(resolved) = Len(parts)
              /\ \A i \in 1..Len(parts) :
                    IF trim(parts[i]) = "mod" THEN trim(resolved[i]) = PlatformModifier
                    ELSE ~includes(parts[i], "mod") => resolved[i] = parts[i]
    /\ ret.fn = "matchesKeyCombination" =>
          ret.value = matchesKeyCombination(argEvent, WrittenWith(argKeys, PlatformModifier))

\* C4 witness: "mod+shift+s" matches meta+shift+S on a Mac
C4_Witness ==
    /\ ret.fn = "matchesKeyCombination"
    /\ argKeys = "mod+shift+s"
    /\ navigator = MacNavigator
    /\ argEvent = KeyEvent("S", {"meta", "shift"})
    /\ ret.value = TRUE

\* The normalized combination of a definition
NormalizedKeys(def) == toLowerCase(resolvePlatformModifier(def.keys))

\* One conflict per definition whose combination an earlier one has, against
\* the first definition that has it
ExpectedConflicts(list) ==
    LET SeenEarlier(j) == \E i \in 1..(j - 1) : NormalizedKeys(list[i]) = NormalizedKeys(list[j])
        First(j) == CHOOSE i \in 1..j :
                        /\ NormalizedKeys(list[i]) = NormalizedKeys(list[j])
                        /\ \A h \in 1..(i - 1) : NormalizedKeys(list[h]) # NormalizedKeys(list[j])
        dups == SelectSeq([j \in 1..Len(list) |-> j], SeenEarlier)
    IN  [k \in 1..Len(dups) |->
            [id1 |-> list[First(dups[k])].id, id2 |-> list[dups[k]].id,
             keys |-> NormalizedKeys(list[dups[k]])]]

\* C6: detectConflicts returns exactly one conflict per definition whose
\* normalized combination was seen earlier in the sequence, id1 being the
\* first definition with that combination and id2 the current one.
C6_OneConflictPerLaterDuplicate ==
    ret.fn = "detectConflicts" => ret.value = ExpectedConflicts(argDefs)

\* C7: of two definitions of a table (distinct, non-empty ids) whose
\* combinations parse to the same modifier set and the same key, conflict
\* detection reports the later one.
C7_SameBindingReported ==
    (/\ ret.fn = "detectConflicts"
     /\ \A i, j \in 1..Len(argDefs) : i # j => argDefs[i].id # argDefs[j].id
     /\ \A i \in 1..Len(argDefs) : argDefs[i].id # "")
    => \A i, j \in 1..Len(argDefs) :
          (i < j /\ parseKeyCombination(argDefs[i].keys) = parseKeyCombination(argDefs[j].keys))
          => \E k \in 1..Len(ret.value) : ret.value[k].id2 = argDefs[j].id

(***************************************************************************)
(* The claims about the dispatch of a key-down event                       *)
(***************************************************************************)
\* The scope rule as the specification words it: a definition is eligible
\* when its scope is unset, is 'global', or is the current scope
ScopeEligible(config, scope) ==
    \/ config.scope = Undefined
    \/ config.scope = Some("global")
    \/ config.scope = Some(scope)

\* The definition is enabled, scope-eligible and its keys match the event
Eligible(config, scope, event) ==
    /\ config.enabled # Some(FALSE)
    /\ ScopeEligible(config, scope)
    /\ matchesKeyCombination(event, config.keys)

\* The id of the first eligible definition in the table's order, if any
FirstEligible(map, scope, event) ==
    LET hits == SelectSeq(map, LAMBDA c : Eligible(c, scope, event))
    IN  IF hits = <<>> THEN <<>> ELSE <<hits[1].id>>

\* C1: a key-down event fires the first definition of the table that is
\* enabled, scope-eligible and matching, and no other; while its dispatch
\* runs, only the subscribers of that id are invoked, whatever the callbacks
\* do to the table and the scope.
C1_FirstEligibleMatchFires ==
    /\ [][\A event \in ManagerEvents :
            handleKeyDown(event) => cur'.fired = FirstEligible(shortcuts, currentScope, event)]_vars
    /\ [](/\ Len(cur.fired) <= 1
          /\ \A i \in 1..Len(invoked) : invoked[i].id = Head(cur.fired))

\* C2: a shortcut whose scope is set to a value other than 'global' fires
\* only while the current scope is its scope, and a key-down event that an
\* enabled shortcut with no scope or the 'global' scope matches fires that
\* shortcut or one before it in the table, under every current scope.
C2_ScopeGating ==
    [][\A event \in ManagerEvents :
          handleKeyDown(event) =>
            /\ cur'.fired # <<>> =>
                  ScopeEligible(MapGet(shortcuts, Head(cur'.fired))[1], currentScope)
            /\ \A i \in 1..Len(shortcuts) :
                  (/\ shortcuts[i].enabled # Some(FALSE)
                   /\ shortcuts[i].scope \in {Undefined, Some("global")}
                   /\ matchesKeyCombination(event, shortcuts[i].keys))
                  => \E j \in 1..i : cur'.fired = <<shortcuts[j].id>>]_vars

(***************************************************************************)
(* The claims about registration                                           *)
(***************************************************************************)
\* The last definition of the array that has the id
LastWithId(configs, id) ==
    configs[CHOOSE i \in 1..Len(configs) :
                /\ configs[i].id = id
                /\ \A j \in (i + 1)..Len(configs) : configs[j].id # id]

\* After the registration of configs, the table holds for each of their ids
\* the registered definition and for every other id what it held
Registered(configs) ==
    \A id \in Ids :
        IF \E i \in 1..Len(configs) : configs[i].id = id
        THEN MapGet(shortcuts', id) = Some(LastWithId(configs, id))
        ELSE MapGet(shortcuts', id) = MapGet(shortcuts, id)

\* C5: after registerShortcut(def) or registerShortcuts(defs), getShortcut of
\* each registered id returns the registered definition whole (the last one
\* of the array with that id), whatever the table held for the id and
\* whatever conflicts the detection finds, and the definitions of the other
\* ids are the ones the table held.
C5_RegistrationReplaces ==
    [][/\ \A config \in Configs : registerShortcut(config) => Registered(<<config>>)
       /\ \A configs \in Batches : registerShortcuts(configs) => Registered(configs)]_vars

\* C5 witness: the definition of a was registered over another one while b
\* holds the same combination, which conflict detection reports
C5_Witness ==
    /\ MapGet(shortcuts, "a") =
          Some(ShortcutConfig("a", "Save", "ctrl+s", Undefined, Undefined, Some("editor")))
    /\ MapGet(shortcuts, "b") =
          Some(ShortcutConfig("b", "Save As", "ctrl+s", Undefined, Undefined, Undefined))
    /\ shortcuts[1].id = "b"
    /\ checkConflicts(shortcuts) # <<>>

(***************************************************************************)
(* The claims about the pressed keys                                       *)
(***************************************************************************)
\* C8: when the handling of a key-down event that fired a shortcut ends, the
\* pressed keys are the modifier key names meta, control, alt, shift among
\* the keys pressed before the event and the event's own key.
C8_ModifiersSurviveTrigger ==
    [][FinishTrigger =>
          pressedKeys' = { key \in cur.pressedBefore \cup {toLowerCase(cur.event.key)} :
                              key \in {"meta", "control", "alt", "shift"} }]_vars

\* C8 witness: ctrl+s fired with control held; control is what stays pressed
C8_Witness ==
    /\ pc = "idle"
    /\ lastTriggeredShortcut # Undefined
    /\ lastTriggeredShortcut[1].originalEvent = evCtrlS
    /\ pressedKeys = {"control"}

(***************************************************************************)
(* The claims about the subscriptions                                      *)
(***************************************************************************)
\* The callbacks in the Set of the id
Subscribed(id) == SeqToSet(subscribers[id])

\* The callbacks invoked so far for the trigger being dispatched
InvokedCallbacks == { invoked[i].cb : i \in { j \in 1..Len(invoked) : invoked[j].kind = "callback" } }

\* The step cancels a subscription of callback to id
UnsubscribeStep(id, callback) ==
    handles'[<<id, callback>>] = handles[<<id, callback>>] - 1

\* C9 as stated: every subscription that was not cancelled, one made with the
\* same callback as a cancelled one included, is in the Set that the next
\* trigger of its id invokes.
C9_EveryOtherSubscriptionStays ==
    \A id \in Ids, callback \in Callbacks :
        handles[<<id, callback>>] > 0 => callback \in Subscribed(id)

\* C9: cancelling a subscription of callback to id takes the callback out of
\* the Set of id, so no later trigger invokes it through that id, and leaves
\* every other callback of id and every callback of the other ids where it
\* was; a trigger invokes callbacks of the Set only, and has invoked every
\* callback of the Set its walk has passed.
C9_UnsubscribeCancelsTheCallback ==
    /\ [][\A id \in Ids, callback \in Callbacks :
            UnsubscribeStep(id, callback) =>
              /\ callback \notin SeqToSet(subscribers'[id])
              /\ SelectSeq(subscribers[id], LAMBDA c : c # callback) = subscribers'[id]
              /\ \A other \in Ids \ {id} : subscribers'[other] = subscribers[other]]_vars
    /\ [][Len(invoked') = Len(invoked) + 1 =>
            invoked'[Len(invoked')].cb \in Subscribed(Head(cur.fired))]_vars
    /\ [](pc = "notify" /\ ~cur.detached =>
            \A j \in 1..cur.idx : subscribers[Head(cur.fired)][j] \in InvokedCallbacks)

\* C9 witness: f was subscribed to a twice and one of the two subscriptions
\* was cancelled; g is still subscribed to a and f to b
C9_Witness ==
    /\ handles[<<"a", "f">>] = 1
    /\ "f" \notin Subscribed("a")
    /\ "g" \in Subscribed("a")
    /\ "f" \in Subscribed("b")

\* C10: for one trigger of an id no callback is invoked more than once.
C10_InvokedAtMostOnce ==
    \A i, j \in 1..Len(invoked) :
        (i # j /\ invoked[i].kind = "callback" /\ invoked[j].kind = "callback")
        => invoked[i].cb # invoked[j].cb

(***************************************************************************)
(* The claims about the subscriptions and the shortcut table               *)
(***************************************************************************)
\* The calls that change the shortcut table
RegistryTableOps ==
    { OpRegisterShortcut(config) : config \in SeqToSet(InitialShortcuts) }
    \cup { OpUnregisterShortcut(id) : id \in Ids }
    \cup { OpEnableShortcut(id) : id \in Ids }
    \cup { OpDisableShortcut(id) : id \in Ids }

\* C11: subscribe(id, cb) puts cb among the callbacks of id whether or not
\* the table holds id; registerShortcut, unregisterShortcut, enableShortcut
\* and disableShortcut leave every callback set as it was; and when a
\* key-down fires an id, every callback subscribed to it has been invoked by
\* the end of the dispatch.
C11_SubscriptionsIndependentOfTable ==
    /\ [][\A id \in Ids : subscribe(id, "f") => "f" \in SeqToSet(subscribers'[id])]_vars
    /\ [][\A op \in RegistryTableOps : ApiCall(op) => subscribers' = subscribers]_vars
    /\ [](pc = "notify" /\ ENABLED FinishTrigger =>
            SeqToSet(subscribers[Head(cur.fired)]) \subseteq InvokedCallbacks)

\* C11 witness: f was subscribed to a while the table had no a; a was then
\* registered and fired, and f is being invoked for it, b never registered
C11_Witness ==
    /\ pc = "notify"
    /\ Head(cur.fired) = "a"
    /\ "f" \in InvokedCallbacks
    /\ ~MapHas(shortcuts, "b")
    /\ "f" \in SeqToSet(subscribers["b"])

(***************************************************************************)
(* The claims about init and destroy                                       *)
(***************************************************************************)
\* The step runs one of the three event handlers
HandlerStep ==
    \/ \E event \in ManagerEvents : handleKeyDown(event)
    \/ \E event \in ManagerEvents : handleKeyUp(event)
    \/ handleBlur

\* C12: the manager is uninitialized or listening. The flag and the bindings
\* change only from uninitialized to listening (init, with a window) and
\* from listening to uninitialized (destroy); listening, window holds the
\* key-down, key-up and blur handlers once, uninitialized, none; without a
\* window the manager stays uninitialized; and no handler runs and no
\* callback is invoked while the manager is uninitialized.
C12_TwoStateLifecycle ==
    /\ [](bound = IF isInitialized THEN WindowEvents ELSE {})
    /\ [](~hasWindow => ~isInitialized)
    /\ [](~isInitialized => pc = "idle" /\ invoked = <<>>)
    /\ [][isInitialized' # isInitialized => hasWindow /\ pc = "idle" /\ UNCHANGED <<tableVars, subVars, keyVars>>]_vars
    /\ [][HandlerStep => isInitialized]_vars

\* C12 witness: the manager listened, fired a shortcut, and was destroyed
C12_Witness ==
    /\ ~isInitialized
    /\ bound = {}
    /\ hasWindow
    /\ lastTriggeredShortcut # Undefined

(***************************************************************************)
(* The claims about enabling, disabling and unregistering                  *)
(***************************************************************************)
\* The table after the step is the table before it, except that the
\* definition of id, if there is one, has its enabled flag set to flag
OnlyEnabledSet(id, flag) ==
    /\ Len(shortcuts') = Len(shortcuts)
    /\ \A i \in 1..Len(shortcuts) :
          shortcuts'[i] = IF shortcuts[i].id = id
                          THEN [shortcuts[i] EXCEPT !.enabled = Some(flag)]
                          ELSE shortcuts[i]

\* C13: enableShortcut(id) and disableShortcut(id) change nothing but the
\* enabled flag of the definition of id, and unregisterShortcut(id) removes
\* nothing but the definition of id; when the table has no id, the three
\* calls leave the table as it is.
C13_AbsentIdsAreNoOps ==
    [][\A id \in Ids :
          /\ enableShortcut(id) => OnlyEnabledSet(id, TRUE)
          /\ disableShortcut(id) => OnlyEnabledSet(id, FALSE)
          /\ unregisterShortcut(id) =>
                shortcuts' = SelectSeq(shortcuts, LAMBDA c : c.id # id)
          /\ (enableShortcut(id) \/ disableShortcut(id) \/ unregisterShortcut(id))
                => (~MapHas(shortcuts, id) => shortcuts' = shortcuts)]_vars

\* C13 witness: b was disabled and keeps its other properties; a is absent
C13_Witness ==
    /\ ~MapHas(shortcuts, "a")
    /\ MapGet(shortcuts, "b") =
          Some(ShortcutConfig("b", "Find", "s", Some(FALSE), Some(FALSE), Some("editor")))

(***************************************************************************)
(* The claims about malformed combinations                                 *)
(***************************************************************************)
\* The tokens a combination may name before its key
ModifierTokens == {"ctrl", "shift", "alt", "meta", "mod"}

\* The combination is empty, ends in an empty key token, or names before
\* its key a token that is not a modifier (tokens are compared trimmed and
\* lower-cased, as the parser reads them)
Malformed(keys) ==
    LET raw == split(toLowerCase(keys))
        parts == [i \in 1..Len(raw) |-> trim(raw[i])]
    IN  \/ keys = ""
        \/ parts[Len(parts)] = ""
        \/ \E i \in 1..(Len(parts) - 1) : parts[i] \notin ModifierTokens

\* C14: a malformed combination matches no key-down event (of a key with a
\* name), so a definition that has it never fires.
C14_MalformedNeverMatches ==
    (/\ ret.fn = "matchesKeyCombination"
     /\ Malformed(argKeys)
     /\ argEvent.key # "")
    => ret.value = FALSE


(***************************************************************************)
(* The claims about the reactive store                                     *)
(***************************************************************************)
\* The values notify() delivered to a listener, in order
Notified(deliveries) ==
    LET part == SelectSeq(deliveries, LAMBDA d : d.how = "notify")
    IN  [i \in 1..Len(part) |-> part[i].v]

\* The call subscribe made to its listener, for each subscribe(l, true)
Immediate(deliveries) == SelectSeq(deliveries, LAMBDA d : d.how = "immediate")

\* C15: whenever no notification is in progress, every subscribed listener
\* has been notified of exactly the values set and update gave the store
\* since it subscribed, one notification per call, in the order of the calls,
\* whoever made the calls (the application or a listener that was running).
C15_ObservesEveryValue ==
    frames = <<>> =>
        \A l \in SeqToSet(listeners) : Notified(received[l]) = taken[l]

\* A step that makes the call op on the store, from the application or from
\* a listener
StoreStep(op) == StoreCall(op) \/ Deliver(op)

\* C16: subscribe(listener, true) calls the listener once, within the call,
\* with the value the store has when subscribe is called; subscribe(listener,
\* false) does not call it; and whenever no notification is in progress a
\* subscribed listener has been notified at least once for each set/update
\* made since it subscribed.
C16_ImmediateThenEveryChange ==
    /\ [][\A op \in StoreSubscribeOps :
            StoreStep(op) =>
                LET l == op.listener
                    before == IF l \in SeqToSet(listeners) THEN Len(Immediate(received[l])) ELSE 0
                IN  /\ l \in SeqToSet(listeners')
                    /\ Len(Immediate(received'[l])) = before + (IF op.immediate THEN 1 ELSE 0)
                    /\ op.immediate =>
                         received'[l][Len(received'[l])] = Delivery(value, "immediate")]_vars
    /\ [](frames = <<>> =>
            \A l \in SeqToSet(listeners) : Len(Notified(received[l])) >= Len(taken[l]))

\* l1 subscribed with immediate = true while the store held 0, and the two
\* values set since then have reached it.
C16_Witness ==
    /\ frames = <<>>
    /\ "l1" \in SeqToSet(listeners)
    /\ received["l1"] = <<Delivery(0, "immediate"), Delivery(1, "notify"), Delivery(2, "notify")>>
    /\ received["l2"] = <<>>
    /\ "l2" \in SeqToSet(listeners)

\* C17: calling a function subscribe returned, when it has been called
\* before, changes neither the store's value nor its Set of listeners.
C17_HandleIdempotent ==
    [][\A op \in StoreUnsubscribeOps :
        (StoreStep(op) /\ <<op.listener, op.k>> \in used) =>
            (listeners' = listeners /\ value' = value)]_vars


(***************************************************************************)
(* The claims about the lists of definitions                               *)
(***************************************************************************)
\* The ids of a list of definitions
IdsOf(list) == { list[i].id : i \in 1..Len(list) }

\* list holds, in the table's order, the definitions of the table whose
\* enabled is unset or true
ActiveOfTable(list) ==
    LET kept == { i \in 1..Len(shortcuts) : shortcuts[i].enabled \in {Undefined, Some(TRUE)} }
    IN  /\ Len(list) = Cardinality(kept)
        /\ \A i \in kept :
              list[Cardinality({ j \in kept : j <= i })] = shortcuts[i]

\* C18: in every state getAllShortcuts() is the whole table and
\* getActiveShortcuts() is the table without the definitions whose enabled is
\* false; a definition registered without enabled is in getActiveShortcuts()
\* right after its registration, a registered id is out of it right after
\* disableShortcut(id) and in it right after enableShortcut(id).
C18_ActiveIsNotDisabled ==
    /\ [](getAllShortcuts = shortcuts /\ ActiveOfTable(getActiveShortcuts))
    /\ [][\A config \in Configs :
            (registerShortcut(config) /\ config.enabled = Undefined)
                => config \in SeqToSet(getActiveShortcuts')]_vars
    /\ [][\A id \in Ids :
            /\ (disableShortcut(id) /\ MapHas(shortcuts, id))
                  => (id \notin IdsOf(getActiveShortcuts') /\ id \in IdsOf(getAllShortcuts'))
            /\ (enableShortcut(id) /\ MapHas(shortcuts, id))
                  => id \in IdsOf(getActiveShortcuts')]_vars

\* C18 witness: a was disabled and enabled again, b is disabled: only a is
\* active, and both are listed.
C18_Witness ==
    /\ Len(getAllShortcuts) = 2
    /\ MapGet(shortcuts, "a")[1].enabled = Some(TRUE)
    /\ MapGet(shortcuts, "b")[1].enabled = Some(FALSE)
    /\ IdsOf(getActiveShortcuts) = {"a"}


(***************************************************************************)
(* The claims about the table as a value                                   *)
(***************************************************************************)
\* Every function subscribed to the shortcuts store was called once by the
\* step, with the Map the store holds after it; no other function was called
OneNotification ==
    \A o \in Observers :
        notified'[o] = IF o \in SeqToSet(shortcutsListeners)
                       THEN <<Snapshot(tableRef', shortcuts')>>
                       ELSE <<>>

\* C19: a Map the application got from shortcuts.get() or from a
\* notification of the shortcuts store has, for as long as the application
\* keeps it, the entries it had when the application got it; a call that
\* changes the table leaves the store with a Map the application does not
\* hold, and calls each subscriber of the store once, with that Map, which
\* after registerShortcuts(defs) holds every definition of defs.
C19_TableReplacedWholesale ==
    /\ [](\A h \in heldMaps : h.ref = tableRef => h.table = shortcuts)
    /\ [][\A config \in SnapshotConfigs :
            registerShortcut(config) =>
                (tableRef' \notin HeldRefs /\ OneNotification /\ Registered(<<config>>))]_vars
    /\ [][\A configs \in SnapshotBatches :
            registerShortcuts(configs) =>
                (tableRef' \notin HeldRefs /\ OneNotification /\ Registered(configs))]_vars
    /\ [][\A id \in Ids :
            (unregisterShortcut(id) \/ enableShortcut(id) \/ disableShortcut(id)) =>
                (tableRef' \notin HeldRefs /\ OneNotification)]_vars

\* C19 witness: the application keeps the Map it got while the table held
\* only a; the table now holds a and b, in another Map, which both
\* subscribers of the store were called with.
C19_Witness ==
    /\ IdsOf(shortcuts) = {"a", "b"}
    /\ \E h \in heldMaps : h.ref # tableRef /\ IdsOf(h.table) = {"a"}
    /\ \A o \in Observers : notified[o] = <<Snapshot(tableRef, shortcuts)>>


(***************************************************************************)
(* The claims about the order of a trigger's steps                         *)
(***************************************************************************)
\* The functions of one kind invoked so far for the event, in order
InvokedOf(kind) ==
    LET part == SelectSeq(invoked, LAMBDA e : e.kind = kind)
    IN  [i \in 1..Len(part) |-> part[i].cb]

\* C20: from the moment a key-down fires a shortcut until its handler
\* returns, lastTriggeredShortcut holds the trigger event, whose id is the
\* fired definition's and whose original event is the key-down; every
\* function invoked received that event; no global listener is invoked after
\* a callback of the id; when the callbacks start, the global listeners
\* have all been invoked, and when the handler returns the callbacks
\* subscribed to the id have all been invoked, in the order they subscribed;
\* lastTriggeredShortcut changes only when a key-down fires a shortcut.
C20_TriggerOrder ==
    /\ [](pc # "idle" =>
            /\ lastTriggeredShortcut = Some(shortcutEvent)
            /\ MapHas(shortcuts, shortcutEvent.id)
            /\ matchesKeyCombination(shortcutEvent.originalEvent,
                                     MapGet(shortcuts, shortcutEvent.id)[1].keys)
            /\ \A i \in 1..Len(invoked) : invoked[i].event = lastTriggeredShortcut[1])
    /\ [](\A i, j \in 1..Len(invoked) :
            (invoked[i].kind = "callback" /\ invoked[j].kind = "listener") => j < i)
    /\ [][StartNotify => InvokedOf("listener") = triggerListeners]_vars
    /\ [][FinishTrigger =>
            /\ InvokedOf("listener") = triggerListeners
            /\ InvokedOf("callback") = subscribers[Head(cur.fired)]]_vars
    /\ [][lastTriggeredShortcut' # lastTriggeredShortcut => (pc = "idle" /\ pc' = "emit")]_vars

\* C20 witness: ctrl+s fired a; the listeners g, f and then the callbacks
\* g, f of a, subscribed in that order, have been invoked with the event.
C20_Witness ==
    /\ pc = "notify"
    /\ lastTriggeredShortcut = Some([id |-> "a", originalEvent |-> evCtrlS])
    /\ triggerListeners = <<"g", "f">>
    /\ subscribers["a"] = <<"g", "f">>
    /\ InvokedOf("listener") = <<"g", "f">>
    /\ InvokedOf("callback") = <<"g", "f">>


(***************************************************************************)
(* The claims about the state the callbacks of a trigger see               *)
(***************************************************************************)
\* A step of the manager's own code while it handles a firing key-down; the
\* other steps of the handling are the functions it invokes
OwnStep == StartNotify \/ FinishTrigger

\* C21: once a global listener or a callback has been invoked for a
\* trigger, no step of the manager's own code changes the pressed keys, the
\* shortcut table or the scope before the handling of that event ends.
C21_StateSettledBeforeCallbacks ==
    [][(invoked # <<>> /\ OwnStep) => UNCHANGED <<pressedKeys, shortcuts, currentScope>>]_vars


(***************************************************************************)
(* The claims about the pressed keys                                       *)
(***************************************************************************)
\* The step leaves the table, the scope, the subscriptions and the last
\* trigger as they are
KeysOnly == UNCHANGED <<shortcuts, currentScope, subscribers, triggerListeners, lastTriggeredShortcut>>

\* C22: a key-up takes the event's lower-cased key, and no other key, out
\* of the pressed keys; a blur leaves no key pressed; a key-down that fires
\* no shortcut puts the event's lower-cased key, and no other key, into the
\* pressed keys; the three change nothing else of the manager.
C22_KeyEventsFrame ==
    /\ [][\A event \in ManagerEvents :
            handleKeyUp(event) =>
                /\ toLowerCase(event.key) \notin pressedKeys'
                /\ \A k \in (pressedKeys \cup pressedKeys') \ {toLowerCase(event.key)} :
                      k \in pressedKeys' <=> k \in pressedKeys
                /\ KeysOnly]_vars
    /\ [][handleBlur => (pressedKeys' = {} /\ KeysOnly)]_vars
    /\ [][\A event \in ManagerEvents :
            (handleKeyDown(event) /\ pc' = "idle") =>
                /\ toLowerCase(event.key) \in pressedKeys'
                /\ \A k \in (pressedKeys \cup pressedKeys') \ {toLowerCase(event.key)} :
                      k \in pressedKeys' <=> k \in pressedKeys
                /\ KeysOnly]_vars

\* C22 witness: ctrl+s fired a; then s went down alone, which fires
\* nothing, and Control, if it was down, went up: only s is pressed.
C22_Witness ==
    /\ pc = "idle"
    /\ isInitialized
    /\ lastTriggeredShortcut = Some([id |-> "a", originalEvent |-> evCtrlS])
    /\ pressedKeys = {"s"}


(***************************************************************************)
(* The claims about the suppression of the event                           *)
(***************************************************************************)
\* C23: a key-down event has preventDefault and stopPropagation called on it
\* exactly when the table holds a definition that is enabled, in scope and
\* matches it, and the first such definition has a preventDefault other than
\* false.
C23_SuppressedIffFired ==
    [][\A event \in ManagerEvents :
          handleKeyDown(event) =>
              LET hit == FirstEligible(shortcuts, currentScope, event)
              IN  cur'.defaultPrevented <=>
                      (/\ hit # <<>>
                       /\ MapGet(shortcuts, hit[1])[1].preventDefault # Some(FALSE))]_vars


(***************************************************************************)
(* The claims about the order of the table                                 *)
(***************************************************************************)
\* The ids of the table in its iteration order
Order(map) == [i \in 1..Len(map) |-> map[i].id]

\* The ids of configs that are not in the table, each once, in the order
\* they first come in configs
NewIds(map, configs) ==
    LET first == { i \in 1..Len(configs) :
                     /\ ~MapHas(map, configs[i].id)
                     /\ \A j \in 1..(i - 1) : configs[j].id # configs[i].id }
    IN  Order(SelectSeq([i \in 1..Len(configs) |->
                            IF i \in first THEN configs[i] ELSE NoConfig],
                        LAMBDA c : c # NoConfig))

\* The definitions of the table that the event would fire if each were the
\* only one
FiresAlone(event) ==
    SelectSeq(shortcuts, LAMBDA c : matchingShortcuts(<<c>>, currentScope, event) # <<>>)

\* C24: registerShortcut and registerShortcuts leave the ids the table holds
\* where they are and append the new ids in the order they are given;
\* enableShortcut and disableShortcut leave the order as it is;
\* unregisterShortcut takes its id out and leaves the others in their order,
\* so that a later registration of the id appends it; and the definition a
\* key-down fires is the earliest in that order among those the event would
\* fire on their own.
C24_OrderOfFirstRegistration ==
    /\ [][\A config \in Configs :
            registerShortcut(config) =>
                Order(shortcuts') = Order(shortcuts) \o NewIds(shortcuts, <<config>>)]_vars
    /\ [][\A configs \in Batches :
            registerShortcuts(configs) =>
                Order(shortcuts') = Order(shortcuts) \o NewIds(shortcuts, configs)]_vars
    /\ [][\A id \in Ids :
            /\ (enableShortcut(id) \/ disableShortcut(id)) => Order(shortcuts') = Order(shortcuts)
            /\ unregisterShortcut(id) =>
                  Order(shortcuts') = SelectSeq(Order(shortcuts), LAMBDA x : x # id)]_vars
    /\ [](\A event \in {evCtrlS, evS} :
            matchingShortcuts(shortcuts, currentScope, event) =
                IF FiresAlone(event) = <<>> THEN <<>> ELSE <<FiresAlone(event)[1].id>>)

\* C24 witness: b was registered first and a after it, both on ctrl+s; a
\* has since been disabled and enabled; the event fires b.
C24_Witness ==
    /\ Order(shortcuts) = <<"b", "a">>
    /\ shortcuts[2].enabled = Some(TRUE)
    /\ shortcuts[1].keys = "ctrl+s"
    /\ matchingShortcuts(shortcuts, currentScope, evCtrlS) = <<"b">>


(***************************************************************************)
(* The claims about functions that throw                                   *)
(***************************************************************************)
\* C25: when the handling of a firing key-down ends, whether its listeners
\* and callbacks returned or threw, no key other than a modifier is pressed
\* and every callback subscribed to the fired id has been invoked.
C25_ThrowLeavesNothingStuck ==
    [][(pc # "idle" /\ pc' = "idle") =>
          /\ pressedKeys' \subseteq MODIFIER_KEYS
          /\ SeqToSet(subscribers[Head(cur.fired)])
                \subseteq { e.cb : e \in { x \in SeqToSet(invoked) \cup SeqToSet(invoked') :
                                             x.kind = "callback" } }]_vars

=============================================================================
